---- MODULE Spec2Model ----
(***************************************************************************)
(* A model of omop2obo's OntologyInfoExtractor (ontology_explorer.py):     *)
(* the batch loop of ontology_processor, the class filter of               *)
(* get_ontology_information, the table built by creates_pandas_dataframe   *)
(* and the two closure indices built by ontology_entity_finder.            *)
(*                                                                         *)
(* The graph queries gets_ontology_... and entity_search are imported from  *)
(* omop2obo.utils and are not part of the files modelled here; they are    *)
(* modelled from sections 4.1 and 4.3 of the specification.                *)
(*                                                                         *)
(* Representation.                                                         *)
(*  - A URI is a sequence of path segments and a segment is a sequence of  *)
(*    tokens, so that k.split('/')[-1].replace('_', ':') is computed.      *)
(*  - A pandas DataFrame is the sequence of its rows, a row is a record.   *)
(*  - A dict is a function; its items are iterated in the order of         *)
(*    ClassSeq.                                                            *)
(*  - A path string built by str.format is the tuple of its parts; Python's*)
(*    None (an unset registry location) is the empty tuple.                *)
(*  - A cell pandas leaves unset is "NaN"; fillna('None') writes "None".   *)
(***************************************************************************)
EXTENDS Integers, Sequences, FiniteSets, TLC

VARIABLES
    ont_dictionary,              \* self.ont_dictionary: the items, <<ont_id, source>>
    graph,                       \* self.graph
    master_ontology_dictionary,  \* self.master_ontology_dictionary
    files,                       \* the artifacts written under self.ont_directory
    pc,                          \* position of ontology_processor
    i,                           \* index of the item the loop is at
    filtered_classes,            \* get_ontology_information's local
    ont_dict,                    \* the result of get_ontology_information
    ont_df                       \* the result of creates_pandas_dataframe

vars == <<ont_dictionary, graph, master_ontology_dictionary, files, pc, i,
          filtered_classes, ont_dict, ont_df>>

(***************************************************************************)
(* Bounds                                                                  *)
(***************************************************************************)
\* number of classes an ontology source declares
NumClasses == 3
\* largest number of ontologies in a batch
MaxOnts == 2
\* largest number of subsumption edges of a graph drawn by InitClosure
MaxEdges == 4

(***************************************************************************)
(* Identifiers                                                             *)
(***************************************************************************)
ClassNames == <<"A", "B", "C", "D", "E", "F">>
OntIds == <<"hp", "mondo", "go", "doid">>

obo == <<"purl.obolibrary.org", "obo">>

Uri(name) == Append([k \in 1..Len(obo) |-> <<obo[k]>>], <<"HP", "_", name>>)

ClassSeq == [k \in 1..NumClasses |-> Uri(ClassNames[k])]
Classes == {ClassSeq[k] : k \in 1..NumClasses}

None == <<>>
ont_directory == "resources/ontologies"

(***************************************************************************)
(* Strings                                                                 *)
(***************************************************************************)
split_last(k) == k[Len(k)]

replace(s, old, new) == [k \in 1..Len(s) |-> IF s[k] = old THEN new ELSE s[k]]

code_of(k) == replace(split_last(k), "_", ":")

(***************************************************************************)
(* Graph accessor (omop2obo.utils, modelled from section 4.1)              *)
(***************************************************************************)
Restrict(f, S) == [x \in (DOMAIN f) \cap S |-> f[x]]

gets_ontology_classes(g) == g.classes

gets_deprecated_ontology_classes(g) == g.deprecated

gets_obsolete_ontology_classes(g) == g.obsolete

gets_ontology_class_labels(g, class_set) == Restrict(g.label, class_set)

gets_ontology_class_definitions(g, class_set) == Restrict(g.definition, class_set)

gets_ontology_class_dbxrefs(g, class_set) == Restrict(g.dbxref, class_set)

gets_ontology_class_synonyms(g, class_set) == Restrict(g.synonym, class_set)

\* variant of direct_parents that keeps the deprecated and obsolete parents
direct_parents_unfiltered(g, c) ==
    {p \in g.classes : <<c, p>> \in g.subClassOf} \ {c}

direct_parents(g, c) ==
    {p \in g.classes : <<c, p>> \in g.subClassOf}
        \ (g.deprecated \cup g.obsolete \cup {c})

direct_children(g, c) ==
    {k \in g.classes : <<k, c>> \in g.subClassOf}
        \ (g.deprecated \cup g.obsolete \cup {c})

neighbours(g, c, search_type) ==
    IF search_type = "ancestors" THEN direct_parents(g, c) ELSE direct_children(g, c)

(***************************************************************************)
(* Closure indexer (entity_search, modelled from section 4.3)              *)
(***************************************************************************)
\* variant of expand that does not remove the source class c from a level
RECURSIVE expand_keeping_source(_, _, _, _, _, _)
expand_keeping_source(g, c, search_type, frontier, visited, levels) ==
    LET found == UNION {neighbours(g, x, search_type) : x \in frontier}
        next == found \ visited
    IN IF next = {} THEN levels
       ELSE expand_keeping_source(g, c, search_type, next, visited \cup next,
                                  Append(levels, next))

\* level i+1 = the neighbours of level i, minus every class already assigned to a
\* level, minus c; the expansion ends at the first empty level
RECURSIVE expand(_, _, _, _, _, _)
expand(g, c, search_type, frontier, visited, levels) ==
    LET found == UNION {neighbours(g, x, search_type) : x \in frontier}
        next == found \ (visited \cup {c})
    IN IF next = {} THEN levels
       ELSE expand(g, c, search_type, next, visited \cup next, Append(levels, next))

\* {level: classes}, level 0 first; the empty structure when c has no neighbour
entity_search(g, c, search_type) ==
    LET level0 == neighbours(g, c, search_type)
        levels == IF level0 = {} THEN <<>>
                  ELSE expand(g, c, search_type, level0, level0, <<level0>>)
    IN [n \in 0..(Len(levels) - 1) |-> levels[n + 1]]

(***************************************************************************)
(* get_ontology_information                                                *)
(***************************************************************************)
\* variant of the filter that tests only the deprecated set
filtered_classes_keeping_obsolete(ont_classes, deprecated, obsolete) ==
    {x \in ont_classes : x \notin deprecated}

\* set([x for x in ont_classes if x not in deprecated | obsolete])
filtered_classes_of(ont_classes, deprecated, obsolete) ==
    {x \in ont_classes : x \notin (deprecated \cup obsolete)}

get_ontology_information(g) ==
    LET ont_classes == gets_ontology_classes(g)
        deprecated == gets_deprecated_ontology_classes(g)
        obsolete == gets_obsolete_ontology_classes(g)
        filtered == filtered_classes_of(ont_classes, deprecated, obsolete)
    IN [filtered |-> filtered,
        res |-> [label |-> gets_ontology_class_labels(g, filtered),
                 definition |-> gets_ontology_class_definitions(g, filtered),
                 dbxref |-> gets_ontology_class_dbxrefs(g, filtered),
                 synonym |-> gets_ontology_class_synonyms(g, filtered)]]

(***************************************************************************)
(* pandas                                                                  *)
(***************************************************************************)
RECURSIVE concat(_)
concat(frames) ==
    IF frames = <<>> THEN <<>> ELSE frames[1] \o concat(Tail(frames))

\* variant of drop_duplicates that removes nothing
keep_duplicates(df) == df

\* DataFrame.drop_duplicates(): the first of every group of equal rows is kept
RECURSIVE drop_duplicates(_)
drop_duplicates(df) ==
    IF df = <<>> THEN <<>>
    ELSE LET front == drop_duplicates(SubSeq(df, 1, Len(df) - 1))
             last == df[Len(df)]
         IN IF \E k \in 1..Len(front) : front[k] = last THEN front
            ELSE Append(front, last)

\* the items of a dict keyed by class, in ClassSeq order
items(d) == SelectSeq(ClassSeq, LAMBDA c : c \in DOMAIN d)

joined(l, r) ==
    [obo_id |-> l.obo_id, code |-> l.code, string |-> l.string,
     string_type |-> l.string_type, dbx |-> r.dbx, dbx_type |-> r.dbx_type,
     dbx_source |-> r.dbx_source, dbx_source_name |-> r.dbx_source_name]

unmatched_left(l) ==
    [obo_id |-> l.obo_id, code |-> l.code, string |-> l.string,
     string_type |-> l.string_type, dbx |-> "NaN", dbx_type |-> "NaN",
     dbx_source |-> "NaN", dbx_source_name |-> "NaN"]

\* how='outer': a right row with no match
unmatched_right(r) ==
    [obo_id |-> r.obo_id, code |-> r.code, string |-> "NaN",
     string_type |-> "NaN", dbx |-> r.dbx, dbx_type |-> r.dbx_type,
     dbx_source |-> r.dbx_source, dbx_source_name |-> r.dbx_source_name]

matches(l, right) ==
    SelectSeq(right, LAMBDA r : r.obo_id = l.obo_id /\ r.code = l.code)

\* variant of the merge with how='outer'
merge_outer(left, right) ==
    concat([k \in 1..Len(left) |->
              LET m == matches(left[k], right)
              IN IF m = <<>> THEN <<unmatched_left(left[k])>>
                 ELSE [n \in 1..Len(m) |-> joined(left[k], m[n])]])
    \o concat([k \in 1..Len(right) |->
              IF \E n \in 1..Len(left) :
                    left[n].obo_id = right[k].obo_id /\ left[n].code = right[k].code
              THEN <<>> ELSE <<unmatched_right(right[k])>>])

\* left.merge(right, on=['obo_id', 'code'], how='left')
merge_left(left, right) ==
    concat([k \in 1..Len(left) |->
              LET m == matches(left[k], right)
              IN IF m = <<>> THEN <<unmatched_left(left[k])>>
                 ELSE [n \in 1..Len(m) |-> joined(left[k], m[n])]])

\* a frame built from no row has no column: merging on a column it lacks raises KeyError
merge_raises(left, right) == left = <<>> \/ right = <<>>

fillna(v) == IF v = "NaN" THEN "None" ELSE v

(***************************************************************************)
(* creates_pandas_dataframe                                                *)
(***************************************************************************)
labs_of(res) ==
    LET ks == items(res.label)
    IN [k \in 1..Len(ks) |->
          [obo_id |-> ks[k], code |-> code_of(ks[k]), string |-> res.label[ks[k]],
           string_type |-> "class label"]]

defs_of(res) ==
    LET ks == items(res.definition)
    IN [k \in 1..Len(ks) |->
          [obo_id |-> ks[k], code |-> code_of(ks[k]), string |-> res.definition[ks[k]],
           string_type |-> "class definition"]]

syn_of(res) ==
    LET ks == items(res.synonym)
    IN concat([k \in 1..Len(ks) |->
          [n \in 1..Len(res.synonym[ks[k]]) |->
             [obo_id |-> ks[k], code |-> code_of(ks[k]),
              string |-> res.synonym[ks[k]][n][1],
              string_type |-> res.synonym[ks[k]][n][2]]]])

dbx_of(res) ==
    LET ks == items(res.dbxref)
    IN concat([k \in 1..Len(ks) |->
          [n \in 1..Len(res.dbxref[ks[k]]) |->
             [obo_id |-> ks[k], code |-> code_of(ks[k]),
              dbx |-> res.dbxref[ks[k]][n][1], dbx_type |-> res.dbxref[ks[k]][n][2],
              dbx_source |-> res.dbxref[ks[k]][n][3],
              dbx_source_name |-> res.dbxref[ks[k]][n][3]]]])

\* pandas.concat([labs, defs, syn]).drop_duplicates()
text_rows(res) == drop_duplicates(concat(<<labs_of(res), defs_of(res), syn_of(res)>>))

\* ns[0][2] if len(ns) > 0 else ont_id
ns_of(g, ont_id) ==
    IF Len(g.default_namespace) > 0 THEN g.default_namespace[1] ELSE ont_id

stamped(row, sab, ns) ==
    [obo_id |-> row.obo_id, code |-> row.code, string |-> fillna(row.string),
     string_type |-> fillna(row.string_type), dbx |-> fillna(row.dbx),
     dbx_type |-> fillna(row.dbx_type), dbx_source |-> fillna(row.dbx_source),
     dbx_source_name |-> fillna(row.dbx_source_name),
     obo_source |-> sab, obo_semantic_type |-> ns]

\* the frame of lines 142-150; defined when frame_raises is false
frame_of(g, res, ont_id) ==
    LET merged == drop_duplicates(merge_left(text_rows(res), dbx_of(res)))
        sab == g.versionIRI[1]
        ns == ns_of(g, ont_id)
    IN drop_duplicates([k \in 1..Len(merged) |-> stamped(merged[k], sab, ns)])

\* list(...)[0] of no versionIRI triple raises IndexError; the merge may raise KeyError
frame_raises(g, res) ==
    g.versionIRI = <<>> \/ merge_raises(text_rows(res), dbx_of(res))

\* '{}/{}_ontology_hierarchy_information.pkl'.format(self.ont_directory, ont_id)
df_path(ont_id) == <<ont_directory, "/", ont_id, "_ontology_hierarchy_information.pkl">>

\* the location is registered after the with block has written the file
df_registered(written) == written

(***************************************************************************)
(* ontology_entity_finder                                                  *)
(***************************************************************************)
anc_path(ont_id) == <<ont_directory, "/", ont_id, "_ontology_ancestors.json">>

kid_path(ont_id) == <<ont_directory, "/", ont_id, "_ontology_children.json">>

\* cls = set(ont_df['obo_id'])
cls_of(df) == {df[k].obo_id : k \in 1..Len(df)}

\* variant of obo_ancs that searches toward the leaves
obo_ancs_descending(g, cls) == [x \in cls |-> entity_search(g, x, "children")]

obo_ancs_of(g, cls) == [x \in cls |-> entity_search(g, x, "ancestors")]

\* variant of obo_kids that omits the classes with no child
obo_kids_without_leaves(g, cls) ==
    [x \in {y \in cls : direct_children(g, y) # {}} |-> entity_search(g, x, "children")]

obo_kids_of(g, cls) == [x \in cls |-> entity_search(g, x, "children")]

(***************************************************************************)
(* Ontology sources: the content of the OWL files the batch names          *)
(***************************************************************************)
\* what the graph says of a class: a label, a definition and a synonym (text); these
\* and a cross-reference (full); a label and two cross-references (two_xrefs); a
\* label, a synonym listed twice and a cross-reference listed twice (dups); only a
\* cross-reference (xref_only)
Profiles == {"text", "full", "two_xrefs", "dups", "xref_only"}

msh == <<"D003117", "oboInOwl:hasDbXref", "msh">>
snomed == <<"88598008", "oboInOwl:hasDbXref", "snomedct_us">>
exact == <<"open bite", "hasExactSynonym">>
related == <<"narrow naris", "hasRelatedSynonym">>

LabelOf(p) == IF p \in {"text", "full", "two_xrefs", "dups"} THEN <<"tritanomaly">> ELSE <<>>
DefinitionOf(p) == IF p \in {"text", "full"} THEN <<"agenesis of lower primary incisor.">> ELSE <<>>
SynonymsOf(p) ==
    CASE p \in {"text", "full"} -> <<exact>>
      [] p = "dups" -> <<exact, related, exact>>
      [] OTHER -> <<>>
DbxrefsOf(p) ==
    CASE p \in {"full", "xref_only"} -> <<msh>>
      [] p = "two_xrefs" -> <<msh, snomed>>
      [] p = "dups" -> <<snomed, snomed>>
      [] OTHER -> <<>>

Source(dep, obs, edges, prof, version, namespace) ==
    [parses |-> TRUE, classes |-> Classes, deprecated |-> dep, obsolete |-> obs,
     subClassOf |-> edges,
     label |-> [c \in {x \in Classes : LabelOf(prof[x]) # <<>>} |-> LabelOf(prof[c])[1]],
     definition |->
        [c \in {x \in Classes : DefinitionOf(prof[x]) # <<>>} |-> DefinitionOf(prof[c])[1]],
     synonym |-> [c \in {x \in Classes : SynonymsOf(prof[x]) # <<>>} |-> SynonymsOf(prof[c])],
     dbxref |-> [c \in {x \in Classes : DbxrefsOf(prof[x]) # <<>>} |-> DbxrefsOf(prof[c])],
     versionIRI |-> version, default_namespace |-> namespace]

Corrupt ==
    [parses |-> FALSE, classes |-> {}, deprecated |-> {}, obsolete |-> {},
     subClassOf |-> {}, label |-> <<>>, definition |-> <<>>, synonym |-> <<>>,
     dbxref |-> <<>>, versionIRI |-> <<>>, default_namespace |-> <<>>]

release == <<"http://purl.obolibrary.org/obo/hp/releases/2022-02-14/hp.owl">>
semantic_type == <<"human_phenotype">>

\* A is the parent of B, B the parent of C, ...
ChainEdges == {<<ClassSeq[k + 1], ClassSeq[k]>> : k \in 1..(NumClasses - 1)}

\* the last class has the first two as parents, and the second has the first as parent
DiamondEdges ==
    {<<ClassSeq[NumClasses], ClassSeq[1]>>, <<ClassSeq[NumClasses], ClassSeq[2]>>,
     <<ClassSeq[2], ClassSeq[1]>>}

\* <<deprecated classes, obsolete classes>>
ClosureLiveness == {<<{}, {}>>, <<{ClassSeq[1]}, {}>>, <<{}, {ClassSeq[2]}>>}
TableLiveness == {<<{}, {}>>, <<{ClassSeq[1]}, {}>>, <<{ClassSeq[1]}, {ClassSeq[2]}>>}

\* every subsumption edge between two classes, and a reflexive edge on the last class
EdgeUniverse ==
    {e \in Classes \X Classes : e[1] # e[2]}
        \cup {<<ClassSeq[NumClasses], ClassSeq[NumClasses]>>}

ClosureSources ==
    {Source(l[1], l[2], edges, [c \in Classes |-> "full"], release, semantic_type) :
        l \in ClosureLiveness,
        edges \in {e \in SUBSET EdgeUniverse : Cardinality(e) <= MaxEdges}} \cup {Corrupt}

TableSources ==
    {Source(l[1], l[2], ChainEdges, prof, m[1], m[2]) :
        l \in TableLiveness, prof \in [Classes -> Profiles],
        m \in {<<release, semantic_type>>, <<release, <<>>>>, <<<<>>, semantic_type>>}}
    \cup {Corrupt}

BatchSources ==
    {Corrupt,
     Source({}, {}, ChainEdges, [c \in Classes |-> "full"], release, semantic_type),
     Source({ClassSeq[1]}, {}, DiamondEdges,
            [c \in Classes |-> IF c = ClassSeq[2] THEN "xref_only" ELSE "two_xrefs"],
            release, <<>>),
     Source({}, {}, ChainEdges, [c \in Classes |-> "text"], release, semantic_type),
     Source({}, {ClassSeq[2]}, DiamondEdges, [c \in Classes |-> "dups"], <<>>, semantic_type)}

\* Graph().parse(source, format='xml'): the triples of a source that parses
parse(source) ==
    [classes |-> source.classes, deprecated |-> source.deprecated,
     obsolete |-> source.obsolete, subClassOf |-> source.subClassOf,
     label |-> source.label, definition |-> source.definition,
     synonym |-> source.synonym, dbxref |-> source.dbxref,
     versionIRI |-> source.versionIRI, default_namespace |-> source.default_namespace]

\* Graph()
EmptyGraph == parse(Corrupt)

Batches(sources, longest) ==
    UNION {[1..n -> sources] : n \in 1..longest}

(***************************************************************************)
(* ontology_processor                                                      *)
(***************************************************************************)
EmptyEntry == [df |-> None, ancestors |-> None, children |-> None]

\* the loop has no try/except: an exception raised in iteration k leaves the loop
raise_from_loop(k) == [pc |-> "failed", i |-> k]

\* the for statement takes the next item, or ends
next_item(k) ==
    IF k < Len(ont_dictionary) THEN [pc |-> "load", i |-> k + 1]
    ELSE [pc |-> "done", i |-> k]

\* a KeyboardInterrupt raised in iteration k leaves the loop as well
interrupted(k) == [pc |-> "aborted", i |-> k]

\* where control goes when a call made in iteration k ends
leave(ends, k, returns_to) ==
    CASE ends = "raises" -> raise_from_loop(k)
      [] ends = "interrupted" -> interrupted(k)
      [] OTHER -> returns_to

(***************************************************************************)
(* The content of a file: the whole serialization of an object, which can   *)
(* be read back, or only its first bytes (some, or none), which cannot.     *)
(***************************************************************************)
Kept == {"nothing", "part"}

truncated(kept) == [kept |-> kept]

whole(obj) == [kept |-> "whole", obj |-> obj]

\* with open(out, 'wb') as f_out: f_out.write(...). open() raises and leaves no
\* file, or it creates the file empty; the bytes reach the file at the latest
\* when the with block closes it, and a write that fails then, or an interrupt in
\* the block, leaves the file truncated and leaves the function
f_out_write(out, bytes_out) ==
    {[files |-> <<>>, ends |-> "raises"]}
    \cup {[files |-> out :> truncated(kept), ends |-> e] :
             kept \in Kept, e \in {"raises", "interrupted"}}
    \cup {[files |-> out :> whole(bytes_out), ends |-> "returns"]}

\* json.dump(obj, open(path, 'w')): open() raises and leaves no file, or it
\* creates the file empty. The file object is never closed: what is still in its
\* buffer is written when the object is finalized, where an error of the write is
\* not raised, so the call can return with the file truncated; an error of a
\* write made while dump runs is raised
json_dump(obj, path) ==
    {[files |-> <<>>, ends |-> "raises"]}
    \cup {[files |-> path :> truncated(kept), ends |-> e] :
             kept \in Kept, e \in {"raises", "interrupted", "returns"}}
    \cup {[files |-> path :> whole(obj), ends |-> "returns"]}

InitWith(sources, longest) ==
    /\ ont_dictionary \in
          {[k \in 1..Len(b) |-> <<OntIds[k], b[k]>>] : b \in Batches(sources, longest)}
    /\ graph = EmptyGraph
    /\ master_ontology_dictionary = <<>>
    /\ files = <<>>
    /\ pc = "load"
    /\ i = 1
    /\ filtered_classes = {}
    /\ ont_dict = [label |-> <<>>, definition |-> <<>>, dbxref |-> <<>>, synonym |-> <<>>]
    /\ ont_df = <<>>

\* variant that starts the registry afresh for every ontology
new_entry_in_new_registry(registry, ont_id) == ont_id :> EmptyEntry

\* self.master_ontology_dictionary[ont[0]] = {'df': None, 'ancestors': None, ...}
new_entry(registry, ont_id) == (ont_id :> EmptyEntry) @@ registry

\* the triples of two graphs together
graph_union(held, added) ==
    [classes |-> held.classes \cup added.classes,
     deprecated |-> held.deprecated \cup added.deprecated,
     obsolete |-> held.obsolete \cup added.obsolete,
     subClassOf |-> held.subClassOf \cup added.subClassOf,
     label |-> added.label @@ held.label,
     definition |-> added.definition @@ held.definition,
     synonym |-> added.synonym @@ held.synonym,
     dbxref |-> added.dbxref @@ held.dbxref,
     versionIRI |-> held.versionIRI \o added.versionIRI,
     default_namespace |-> held.default_namespace \o added.default_namespace]

\* variant that parses the source into the graph already held
loaded_into_held_graph(held, source) == graph_union(held, parse(source))

\* self.graph = Graph().parse(ont[1], format='xml'): a new graph takes the place of
\* the graph held
loaded_graph(held, source) == parse(source)

\* lines 208-211: the registry entry is created, then the graph is loaded; the
\* parse raises, is interrupted, or returns the graph that is bound to self.graph
LoadOntology ==
    /\ pc = "load"
    /\ LET ont == ont_dictionary[i]
       IN \E ends \in IF ont[2].parses THEN {"returns", "interrupted"}
                      ELSE {"raises", "interrupted"} :
            LET to == leave(ends, i, [pc |-> "info", i |-> i])
            IN /\ master_ontology_dictionary' =
                     new_entry(master_ontology_dictionary, ont[1])
               /\ graph' = IF ends = "returns" THEN loaded_graph(graph, ont[2])
                           ELSE graph
               /\ pc' = to.pc
               /\ i' = to.i
    /\ UNCHANGED <<ont_dictionary, files, filtered_classes, ont_dict, ont_df>>

\* line 213
GetOntologyInformation ==
    /\ pc = "info"
    /\ LET r == get_ontology_information(graph)
       IN /\ filtered_classes' = r.filtered
          /\ ont_dict' = r.res
    /\ pc' = "frame"
    /\ UNCHANGED <<ont_dictionary, graph, master_ontology_dictionary, files, i, ont_df>>

\* line 215: the frame is built, written and then registered (lines 154-156); an
\* interrupt can arrive between the with block and the registration
CreatesPandasDataframe ==
    /\ pc = "frame"
    /\ LET ont_id == ont_dictionary[i][1]
           out == df_path(ont_id)
       IN IF frame_raises(graph, ont_dict)
          THEN /\ pc' = raise_from_loop(i).pc
               /\ i' = raise_from_loop(i).i
               /\ UNCHANGED <<master_ontology_dictionary, files, ont_df>>
          ELSE LET df == frame_of(graph, ont_dict, ont_id)
               IN \E w \in f_out_write(out, df) :
                  \E before_156 \in IF w.ends = "returns" THEN {"returns", "interrupted"}
                                    ELSE {w.ends} :
                    LET written == before_156 = "returns"
                        to == leave(before_156, i, [pc |-> "finder", i |-> i])
                    IN /\ files' = w.files @@ files
                       /\ master_ontology_dictionary' =
                             IF df_registered(written)
                             THEN [master_ontology_dictionary EXCEPT ![ont_id].df = out]
                             ELSE master_ontology_dictionary
                       /\ ont_df' = IF written THEN df ELSE ont_df
                       /\ pc' = to.pc
                       /\ i' = to.i
    /\ UNCHANGED <<ont_dictionary, graph, filtered_classes, ont_dict>>

\* line 217: the ancestors location is registered (188), then the children
\* location (189), then the two indices are dumped (190, 191); an interrupt can
\* arrive before each of these lines and before the return
OntologyEntityFinder ==
    /\ pc = "finder"
    /\ LET ont_id == ont_dictionary[i][1]
           cls == cls_of(ont_df)
           obo_ancs == obo_ancs_of(graph, cls)
           obo_kids == obo_kids_of(graph, cls)
           line_188 == [master_ontology_dictionary EXCEPT
                          ![ont_id].ancestors = anc_path(ont_id)]
           line_189 == [line_188 EXCEPT ![ont_id].children = kid_path(ont_id)]
           line_190 == json_dump(obo_ancs, anc_path(ont_id))
           line_191 == json_dump(obo_kids, kid_path(ont_id))
           runs ==
               {[registry |-> line_188, files |-> <<>>, ends |-> "interrupted"],
                [registry |-> line_189, files |-> <<>>, ends |-> "interrupted"]}
               \cup {[registry |-> line_189, files |-> a.files, ends |-> a.ends] :
                        a \in {r \in line_190 : r.ends # "returns"}}
               \cup {[registry |-> line_189, files |-> a.files, ends |-> "interrupted"] :
                        a \in {r \in line_190 : r.ends = "returns"}}
               \cup {[registry |-> line_189, files |-> k[2].files @@ k[1].files,
                       ends |-> k[2].ends] :
                        k \in {r \in line_190 : r.ends = "returns"} \X line_191}
               \cup {[registry |-> line_189, files |-> k[2].files @@ k[1].files,
                       ends |-> "interrupted"] :
                        k \in {r \in line_190 : r.ends = "returns"}
                              \X {r \in line_191 : r.ends = "returns"}}
       IN \E run \in runs :
            LET to == leave(run.ends, i, next_item(i))
            IN /\ master_ontology_dictionary' = run.registry
               /\ files' = run.files @@ files
               /\ pc' = to.pc
               /\ i' = to.i
    /\ UNCHANGED <<ont_dictionary, graph, filtered_classes, ont_dict, ont_df>>

\* a KeyboardInterrupt arrives before the first statement of a step
Interrupt ==
    /\ pc \in {"load", "info", "frame", "finder"}
    /\ pc' = interrupted(i).pc
    /\ UNCHANGED <<ont_dictionary, graph, master_ontology_dictionary, files, i,
                   filtered_classes, ont_dict, ont_df>>

Next ==
    \/ LoadOntology
    \/ GetOntologyInformation
    \/ CreatesPandasDataframe
    \/ OntologyEntityFinder
    \/ Interrupt

\* a batch of up to MaxOnts ontologies
Init == InitWith(BatchSources, MaxOnts)
Spec == Init /\ [][Next]_vars

\* one ontology, over every subsumption graph
InitClosure == InitWith(ClosureSources, 1)
SpecClosure == InitClosure /\ [][Next]_vars

\* one ontology, over every assignment of metadata to its classes
InitTable == InitWith(TableSources, 1)
SpecTable == InitTable /\ [][Next]_vars

(***************************************************************************)
(* Reference notions the properties are stated with                        *)
(***************************************************************************)
IdOf(k) == ont_dictionary[k][1]

GraphOf(k) == parse(ont_dictionary[k][2])

Live(g) == {c \in g.classes : c \notin g.deprecated /\ c \notin g.obsolete}

\* the subsumption edges between live classes, read from the class toward the
\* roots (ancestors) or toward the leaves (children)
LiveEdges(g, search_type) ==
    {e \in Live(g) \X Live(g) :
        IF search_type = "ancestors" THEN e \in g.subClassOf
        ELSE <<e[2], e[1]>> \in g.subClassOf}

\* for k = 1..n, the pairs joined by a walk of exactly k edges
RECURSIVE Walks(_, _, _)
Walks(g, search_type, n) ==
    IF n = 1 THEN <<LiveEdges(g, search_type)>>
    ELSE LET shorter == Walks(g, search_type, n - 1)
         IN Append(shorter,
                   UNION {{<<walk[1], edge[2]>> : edge \in {e \in shorter[1] : e[1] = walk[2]}} :
                             walk \in shorter[n - 1]})

\* the triples <<c, d, n>> where n is the number of edges of the shortest path
\* from the live class c to the live class d; no triple when there is no path
Distances(g, search_type) ==
    LET walks == Walks(g, search_type, Cardinality(g.classes))
    IN UNION {{<<e[1], e[2], n>> : e \in walks[n] \ UNION {walks[m] : m \in 1..(n - 1)}} :
                 n \in DOMAIN walks}

\* the triples <<c, d, n + 1>> where an index stores d at level n of the closure of c
StoredDistances(index) ==
    UNION {UNION {{<<c, d, n + 1>> : d \in index[c][n]} : n \in DOMAIN index[c]} :
              c \in DOMAIN index}

IndexPath(ont_id, search_type) ==
    IF search_type = "ancestors" THEN anc_path(ont_id) ELSE kid_path(ont_id)

Directions == {"ancestors", "children"}

\* the file holds the whole serialization of an object
Readable(path) == path \in DOMAIN files /\ files[path].kept = "whole"

\* the indices written whole so far: <<position in the batch, direction>>

WrittenIndices ==
    {w \in (1..Len(ont_dictionary)) \X Directions :
        Readable(IndexPath(IdOf(w[1]), w[2]))}

IndexAt(w) == files[IndexPath(IdOf(w[1]), w[2])].obj

\* the tables written whole so far, by position in the batch
WrittenTables == {k \in 1..Len(ont_dictionary) : Readable(df_path(IdOf(k)))}

TableAt(k) == files[df_path(IdOf(k))].obj

(***************************************************************************)
(* C1: in both indices, the set stored for a source class c at level n is   *)
(* the set of live classes other than c whose shortest subsumption path     *)
(* from c, through live classes, has n+1 edges; the union of the levels is  *)
(* the transitive closure of c.                                             *)
(***************************************************************************)
C1_LevelsAreShortestDistances ==
    \A w \in WrittenIndices :
        LET g == GraphOf(w[1])
            index == IndexAt(w)
        IN /\ DOMAIN index \subseteq Live(g)
           /\ StoredDistances(index)
                 = {t \in Distances(g, w[2]) : t[1] \in DOMAIN index /\ t[1] # t[2]}

\* an index was written for a class c with parents a and b where b is a child of a:
\* a is one edge and two edges away from c
C1_Witness ==
    \E w \in WrittenIndices :
        /\ w[2] = "ancestors"
        /\ \E c, a, b \in Live(GraphOf(w[1])) :
              /\ c # a /\ c # b /\ a # b
              /\ {<<c, a>>, <<c, b>>, <<b, a>>} \subseteq GraphOf(w[1]).subClassOf
              /\ c \in DOMAIN IndexAt(w)
              /\ a \in IndexAt(w)[c][0]

(***************************************************************************)
(* C2: in both indices, also when the graph has a subsumption cycle through *)
(* c, the source class c is at no level of its own closure and no class is  *)
(* at two levels of the closure of the same source class.                   *)
(***************************************************************************)
C2_NoSelfNoRepeat ==
    \A w \in WrittenIndices :
        \A c \in DOMAIN IndexAt(w) :
            LET closure == IndexAt(w)[c]
            IN /\ \A n \in DOMAIN closure : c \notin closure[n]
               /\ \A n, m \in DOMAIN closure : n # m => closure[n] \cap closure[m] = {}

\* an index was written for a class c on a cycle c -> a -> c of live classes
C2_Witness ==
    \E w \in WrittenIndices :
        \E c, a \in Live(GraphOf(w[1])) :
            /\ c # a
            /\ {<<c, a>>, <<a, c>>} \subseteq GraphOf(w[1]).subClassOf
            /\ c \in DOMAIN IndexAt(w)
            /\ a \in IndexAt(w)[c][0]

(***************************************************************************)
(* C5: no deprecated and no obsolete class is at any level of any closure,  *)
(* also when the graph has an edge between it and a live class: the direct  *)
(* parents and direct children of a class exclude the deprecated classes,   *)
(* the obsolete classes and the class itself.                               *)
(***************************************************************************)
C5_NoDeadClassInClosure ==
    /\ \A w \in WrittenIndices :
          \A c \in DOMAIN IndexAt(w) :
              \A n \in DOMAIN IndexAt(w)[c] :
                  IndexAt(w)[c][n] \cap
                      (GraphOf(w[1]).deprecated \cup GraphOf(w[1]).obsolete) = {}
    /\ \A c \in graph.classes :
          (direct_parents(graph, c) \cup direct_children(graph, c))
              \cap (graph.deprecated \cup graph.obsolete \cup {c}) = {}

\* both indices were written for a graph where a live class c has a deprecated or
\* obsolete parent that itself has a live parent, and a reflexive edge
C5_Witness ==
    \E k \in 1..Len(ont_dictionary) :
        LET g == GraphOf(k)
        IN /\ <<k, "ancestors">> \in WrittenIndices
           /\ <<k, "children">> \in WrittenIndices
           /\ \E c, p \in Live(g) : \E d \in g.deprecated \cup g.obsolete :
                 /\ c # p
                 /\ {<<c, d>>, <<d, p>>, <<c, c>>} \subseteq g.subClassOf
                 /\ c \in DOMAIN IndexAt(<<k, "ancestors">>)
                 /\ \A n \in DOMAIN IndexAt(<<k, "ancestors">>)[c] :
                       p \notin IndexAt(<<k, "ancestors">>)[c][n]

(***************************************************************************)
(* C3: the class set passed to the label, definition, cross-reference and   *)
(* synonym queries is the declared classes minus the deprecated and the     *)
(* obsolete ones: it holds no deprecated class, no obsolete class, and      *)
(* every declared class that is in neither set.                             *)
(***************************************************************************)
C3_LiveClassSet ==
    pc \in {"frame", "finder"} =>
        /\ \A c \in filtered_classes :
              c \in graph.classes /\ c \notin graph.deprecated /\ c \notin graph.obsolete
        /\ \A c \in graph.classes :
              (c \notin graph.deprecated /\ c \notin graph.obsolete) => c \in filtered_classes
        /\ DOMAIN ont_dict.label = filtered_classes \cap DOMAIN graph.label
        /\ DOMAIN ont_dict.definition = filtered_classes \cap DOMAIN graph.definition
        /\ DOMAIN ont_dict.dbxref = filtered_classes \cap DOMAIN graph.dbxref
        /\ DOMAIN ont_dict.synonym = filtered_classes \cap DOMAIN graph.synonym

\* the queries have run on a graph with a labelled deprecated class, a labelled
\* obsolete class and a live class
C3_Witness ==
    /\ pc = "frame"
    /\ filtered_classes # {}
    /\ graph.deprecated \cap DOMAIN graph.label # {}
    /\ graph.obsolete \cap DOMAIN graph.label # {}

(***************************************************************************)
(* C4: every class identifier of a row of the metadata table and every key  *)
(* of the ancestors index and of the descendants index is a live class of   *)
(* the ontology; the left join of the cross-reference rows adds no class    *)
(* identifier that is in no label, definition or synonym row.               *)
(***************************************************************************)
C4_OnlyLiveClasses ==
    /\ \A k \in WrittenTables :
          /\ cls_of(TableAt(k)) \subseteq Live(GraphOf(k))
          /\ cls_of(TableAt(k)) \subseteq
                {c \in Classes : c \in DOMAIN GraphOf(k).label
                                   \cup DOMAIN GraphOf(k).definition
                                   \cup DOMAIN GraphOf(k).synonym}
    /\ \A w \in WrittenIndices : DOMAIN IndexAt(w) \subseteq Live(GraphOf(w[1]))

\* the table and both indices were written for an ontology with a labelled
\* deprecated or obsolete class and a live class that has a cross-reference and
\* neither label, definition nor synonym
C4_Witness ==
    \E k \in WrittenTables :
        LET g == GraphOf(k)
        IN /\ <<k, "ancestors">> \in WrittenIndices
           /\ <<k, "children">> \in WrittenIndices
           /\ (g.deprecated \cup g.obsolete) \cap DOMAIN g.label # {}
           /\ \E c \in Live(g) :
                 /\ c \in DOMAIN g.dbxref
                 /\ c \notin DOMAIN g.label \cup DOMAIN g.definition \cup DOMAIN g.synonym

(***************************************************************************)
(* C6, as claimed: every live class is a key of the ancestors index and of  *)
(* the descendants index.                                                   *)
(***************************************************************************)
C6_EveryLiveClassIsKey ==
    \A w \in WrittenIndices : Live(GraphOf(w[1])) \subseteq DOMAIN IndexAt(w)

\* the live classes of a graph that have a label, a definition or a synonym
LiveWithText(g) ==
    {c \in Live(g) :
        \/ c \in DOMAIN g.label
        \/ c \in DOMAIN g.definition
        \/ c \in DOMAIN g.synonym /\ g.synonym[c] # <<>>}

(***************************************************************************)
(* C6, amended: the keys of both indices are the classes of the metadata    *)
(* table, that is the live classes with a label, a definition or a synonym; *)
(* such a class with no direct parent (no direct child) is a key that maps  *)
(* to the empty structure.                                                  *)
(***************************************************************************)
C6_TableClassesAreKeys ==
    \A w \in WrittenIndices :
        /\ w[1] \in WrittenTables
        /\ DOMAIN IndexAt(w) = cls_of(TableAt(w[1]))
        /\ DOMAIN IndexAt(w) = LiveWithText(GraphOf(w[1]))
        /\ \A c \in DOMAIN IndexAt(w) :
              neighbours(GraphOf(w[1]), c, w[2]) = {} => IndexAt(w)[c] = <<>>

\* both indices were written; a live class with no text is no key, and a key has
\* no direct child
C6_Witness ==
    \E k \in WrittenTables :
        LET g == GraphOf(k)
        IN /\ <<k, "ancestors">> \in WrittenIndices
           /\ <<k, "children">> \in WrittenIndices
           /\ Live(g) \ DOMAIN IndexAt(<<k, "children">>) # {}
           /\ \E c \in DOMAIN IndexAt(<<k, "children">>) :
                 direct_children(g, c) = {} /\ IndexAt(<<k, "children">>)[c] = <<>>

\* the rows of table t with this class, text and text kind
RowsOf(t, c, string, string_type) ==
    {n \in 1..Len(t) :
        t[n].obo_id = c /\ t[n].string = string /\ t[n].string_type = string_type}

\* the <<text, text kind>> pairs a graph gives a class
TextsOf(g, c) ==
    (IF c \in DOMAIN g.label THEN {<<g.label[c], "class label">>} ELSE {})
    \cup (IF c \in DOMAIN g.definition THEN {<<g.definition[c], "class definition">>}
          ELSE {})
    \cup (IF c \in DOMAIN g.synonym
          THEN {g.synonym[c][n] : n \in 1..Len(g.synonym[c])} ELSE {})

\* the distinct cross-references a graph gives a class
XrefsOf(g, c) ==
    IF c \in DOMAIN g.dbxref THEN {g.dbxref[c][n] : n \in 1..Len(g.dbxref[c])} ELSE {}

(***************************************************************************)
(* In a table that was written, a class with no cross-reference keeps each  *)
(* of its label, definition and synonym rows, once, with "None" in dbx,     *)
(* dbx_type, dbx_source and dbx_source_name; no row of the table has an     *)
(* unset cross-reference field.                                             *)
(***************************************************************************)
NoneSentinel ==
    \A k \in WrittenTables :
        LET g == GraphOf(k)
            t == TableAt(k)
        IN /\ \A n \in 1..Len(t) :
                 "NaN" \notin {t[n].dbx, t[n].dbx_type, t[n].dbx_source,
                               t[n].dbx_source_name}
           /\ \A c \in Live(g) :
                 XrefsOf(g, c) = {} =>
                    /\ \A x \in TextsOf(g, c) : Cardinality(RowsOf(t, c, x[1], x[2])) = 1
                    /\ \A n \in 1..Len(t) :
                          t[n].obo_id = c =>
                             {t[n].dbx, t[n].dbx_type, t[n].dbx_source,
                              t[n].dbx_source_name} = {"None"}

\* a live class of the graph has a label, a definition or a synonym and no
\* cross-reference
TextWithoutXref(g) ==
    \E c \in Live(g) : TextsOf(g, c) # {} /\ XrefsOf(g, c) = {}

(***************************************************************************)
(* C9: a class with no cross-reference keeps its label, definition and      *)
(* synonym rows in the output, with "None" in every cross-reference field:  *)
(* when step 3 is about to build the table of an ontology that has such a   *)
(* class (and a versionIRI), building the table does not raise, and every   *)
(* table written has these rows with the sentinel. When no live class of    *)
(* the ontology has a cross-reference the merge of line 147 raises KeyError *)
(* and no row is kept, so this does not hold of the code.                   *)
(***************************************************************************)
C9_RowsKeptWithNone ==
    /\ NoneSentinel
    /\ pc = "frame" /\ graph.versionIRI # <<>> /\ TextWithoutXref(graph)
          => ~frame_raises(graph, ont_dict)

(***************************************************************************)
(* C10, as claimed: no two rows of the final metadata table have the same   *)
(* obo_id, string and string_type.                                          *)
(***************************************************************************)
C10_TextKeyUnique ==
    \A k \in WrittenTables :
        \A n, m \in 1..Len(TableAt(k)) :
            (/\ TableAt(k)[n].obo_id = TableAt(k)[m].obo_id
             /\ TableAt(k)[n].string = TableAt(k)[m].string
             /\ TableAt(k)[n].string_type = TableAt(k)[m].string_type) => n = m

(***************************************************************************)
(* C10, amended: no two rows of the final metadata table are equal in every *)
(* field; the table has one row per (class, text, text kind) and distinct   *)
(* cross-reference of the class, so obo_id, string and string_type identify *)
(* a row only for a class with at most one distinct cross-reference.        *)
(***************************************************************************)
C10_RowsUnique ==
    \A k \in WrittenTables :
        LET g == GraphOf(k)
            t == TableAt(k)
        IN /\ \A n, m \in 1..Len(t) : t[n] = t[m] => n = m
           /\ \A c \in cls_of(t) :
                 \A x \in TextsOf(g, c) :
                    /\ Cardinality(RowsOf(t, c, x[1], x[2]))
                          = IF XrefsOf(g, c) = {} THEN 1 ELSE Cardinality(XrefsOf(g, c))
                    /\ \A n, m \in RowsOf(t, c, x[1], x[2]) :
                          n # m =>
                             <<t[n].dbx, t[n].dbx_type, t[n].dbx_source>>
                                # <<t[m].dbx, t[m].dbx_type, t[m].dbx_source>>

\* a table was written for a class with two distinct cross-references and a class
\* whose synonyms and cross-references are listed twice
C10_Witness ==
    \E k \in WrittenTables :
        LET g == GraphOf(k)
        IN /\ \E c \in cls_of(TableAt(k)) : Cardinality(XrefsOf(g, c)) = 2
           /\ \E c \in cls_of(TableAt(k)) \cap DOMAIN g.dbxref \cap DOMAIN g.synonym :
                 /\ Len(g.dbxref[c]) > Cardinality(XrefsOf(g, c))
                 /\ Len(g.synonym[c]) > Cardinality(TextsOf(g, c)) - 1

\* the steps of a run on this source raise nothing of their own: it parses, has a
\* versionIRI, and its text and cross-reference frames have rows
Processable(source) ==
    /\ source.parses
    /\ ~frame_raises(parse(source), get_ontology_information(parse(source)).res)

\* the run of the k-th ontology went through all its steps: it registered its
\* three locations, wrote its table and created its two index files (a dump whose
\* write failed without raising leaves the index file truncated)
Completed(k) ==
    /\ IdOf(k) \in DOMAIN master_ontology_dictionary
    /\ master_ontology_dictionary[IdOf(k)] =
          [df |-> df_path(IdOf(k)), ancestors |-> anc_path(IdOf(k)),
           children |-> kid_path(IdOf(k))]
    /\ k \in WrittenTables
    /\ {anc_path(IdOf(k)), kid_path(IdOf(k))} \subseteq DOMAIN files

(***************************************************************************)
(* C7: when a step of one ontology has failed, every later ontology of the  *)
(* batch whose own steps succeed is still loaded, extracted, normalized,    *)
(* indexed and registered. The loop of lines 207-217 has no try/except, so  *)
(* the exception ends the batch and this does not hold of the code.         *)
(***************************************************************************)
C7_BatchContinues ==
    pc = "failed" =>
        \A k \in (i + 1)..Len(ont_dictionary) :
            Processable(ont_dictionary[k][2]) => Completed(k)

(***************************************************************************)
(* C8: the registry holds an entry for an ontology only if that ontology    *)
(* completed all its steps, with the three locations set and the three      *)
(* artifacts written. Line 208 creates the entry before the graph is loaded *)
(* and nothing removes it when a step raises or the run is interrupted, so  *)
(* this does not hold of the code.                                          *)
(***************************************************************************)
C8_OnlyCompleteEntries ==
    \A k \in 1..Len(ont_dictionary) :
        IdOf(k) \in DOMAIN master_ontology_dictionary => Completed(k)

\* the ontologies whose entry creation (line 208) has run: those the loop went
\* past, and the current one once its step 1 ended other than by an interrupt
Started ==
    {k \in 1..Len(ont_dictionary) : k < i \/ (k = i /\ pc \notin {"load", "aborted"})}

\* the ontologies the loop has taken so far; after an interrupt the entry of the
\* last of them was created unless the interrupt came before line 208
Reached == {k \in 1..Len(ont_dictionary) : k < i \/ (k = i /\ pc # "load")}

\* the entry of a run that registered its three locations
FullEntry(ont_id) ==
    [df |-> df_path(ont_id), ancestors |-> anc_path(ont_id), children |-> kid_path(ont_id)]

\* the ontologies whose run has completed: the loop went on past them
Finished == {k \in 1..Len(ont_dictionary) : k < i \/ (k = i /\ pc = "done")}

C11_EntryLifecycle ==
    /\ \A k \in Started : IdOf(k) \in DOMAIN master_ontology_dictionary
    /\ \A k \in 1..Len(ont_dictionary) :
          IdOf(k) \in DOMAIN master_ontology_dictionary => k \in Reached
    /\ \A k \in Finished :
          /\ IdOf(k) \in DOMAIN master_ontology_dictionary
          /\ master_ontology_dictionary[IdOf(k)] = FullEntry(IdOf(k))

C11_EntryKept ==
    \A k \in Finished :
        /\ IdOf(k) \in DOMAIN master_ontology_dictionary'
        /\ master_ontology_dictionary'[IdOf(k)] = master_ontology_dictionary[IdOf(k)]

(***************************************************************************)
(* C11: the registry entry of an ontology is created when its run begins;   *)
(* once its run has completed the entry has its table, ancestors and        *)
(* children locations set, and no later step of the batch changes it.       *)
(***************************************************************************)
C11_EntrySetThenFrozen == []C11_EntryLifecycle /\ [][C11_EntryKept]_vars

\* the first ontology completed and a later ontology went through its steps up to
\* the registration of its own locations
C11_Witness ==
    /\ i > 1
    /\ pc \in {"done", "failed"}
    /\ master_ontology_dictionary[IdOf(1)] = FullEntry(IdOf(1))
    /\ master_ontology_dictionary[IdOf(i)].ancestors # None

\* the table and the two indices a run over the source of the k-th ontology alone
\* produces
TableFrom(k) ==
    frame_of(GraphOf(k), get_ontology_information(GraphOf(k)).res, IdOf(k))

IndexFrom(w) ==
    IF w[2] = "ancestors" THEN obo_ancs_of(GraphOf(w[1]), cls_of(TableFrom(w[1])))
    ELSE obo_kids_of(GraphOf(w[1]), cls_of(TableFrom(w[1])))

(***************************************************************************)
(* C12: ontologies are processed one at a time and loading an ontology      *)
(* replaces the held graph: while steps 2-4 of the k-th ontology run, the   *)
(* graph holds the triples of its source and no other, so its table and its *)
(* two indices are those of a run over its source alone, whatever was       *)
(* processed before it in the batch.                                        *)
(***************************************************************************)
C12_GraphReplaced ==
    /\ pc \in {"info", "frame", "finder"} => graph = GraphOf(i)
    /\ \A k \in WrittenTables : TableAt(k) = TableFrom(k)
    /\ \A w \in WrittenIndices : IndexAt(w) = IndexFrom(w)

\* the second ontology of a batch completed after a first ontology with other
\* triples completed
C12_Witness ==
    /\ i = 2
    /\ pc = "done"
    /\ Completed(1)
    /\ Completed(2)
    /\ GraphOf(1) # GraphOf(2)
    /\ GraphOf(1).subClassOf # {}
    /\ \A d \in Directions : <<2, d>> \in WrittenIndices

====
